---- MODULE Spec2Model ----
(***************************************************************************)
(* The Slate preconditioners of firedrake/slate/preconditioners.py:        *)
(* HybridStaticCondensationPC and HybridizationPC, as a state machine of   *)
(* one preconditioner instance driven by its hosting solver through        *)
(* initialize / update / apply / applyTranspose / view.                    *)
(*                                                                         *)
(* Every function space carries one degree of freedom and the scalars are  *)
(* the field of integers modulo 3, so that the element-local tensor        *)
(* algebra of the source (sums, products, inverses) is computed exactly    *)
(* as the source writes it.                                                *)
(***************************************************************************)
EXTENDS Integers, Sequences, FiniteSets, TLC

VARIABLES
    kind,     \* the class of the instance
    self,     \* the instance's attributes (its __dict__)
    coeff,    \* the current value of the operator's coefficient
    y,        \* the caller's output vector
    viewer,   \* the ASCII viewer's indentation level
    nInit,    \* the number of initialize calls made so far
    initOk,   \* whether some initialize call has returned without raising
    last,     \* the outcome of the last call
    tmesh,    \* the extruded mesh a scalar tensor is assembled over
    texpr,    \* the expression being assembled: the tensor or its () block
    tcell,    \* the number of cells the assembly loop has visited
    tacc,     \* the value accumulated by the assembly loop
    tres      \* the assembled scalars, by expression

pcvars == <<kind, self, coeff, y, viewer, nInit, initOk, last>>
tvars == <<tmesh, texpr, tcell, tacc, tres>>
vars == <<pcvars, tvars>>

-----------------------------------------------------------------------------
(* Bounds of the model.                                                    *)

\* initialize calls explored on one instance
MaxInit == 2
\* the deepest viewer indentation explored
MaxTab == 1
\* the largest entry of an input vector x
MaxX == 1
\* the most cells of a base interval mesh and the most layers of its
\* extrusion
MaxCells == 5
MaxLayers == 5

-----------------------------------------------------------------------------
(* Scalars: the field Z_3.                                                 *)

Val == {0, 1, 2}
P == Cardinality(Val)

Add(a, b) == (a + b) % P
Sub(a, b) == (a + P - b) % P
Mul(a, b) == (a * b) % P
Neg(a) == (P - a) % P
\* The inverse of a local dense block.  A singular block has no inverse; the
\* local factorisation then returns numbers without raising, taken to be 0.
Inv(a) == IF a = 0 THEN 0 ELSE CHOOSE b \in Val : Mul(a, b) = 1

Vec2 == [0..1 -> Val]
Vec3 == [0..2 -> Val]
Zero2 == [i \in 0..1 |-> 0]
Zero3 == [i \in 0..2 |-> 0]

-----------------------------------------------------------------------------
(* Function spaces and operator contexts handed to initialize.             *)

RT  == [sobolev |-> "HDiv", vector |-> TRUE,  family |-> "Raviart-Thomas"]
DG  == [sobolev |-> "L2",   vector |-> FALSE, family |-> "Discontinuous Lagrange"]
VDG == [sobolev |-> "L2",   vector |-> TRUE,  family |-> "Discontinuous Lagrange"]
CG  == [sobolev |-> "H1",   vector |-> FALSE, family |-> "Lagrange"]
TR  == [sobolev |-> "L2",   vector |-> FALSE, family |-> "HDiv Trace"]

\* An operator context: P.getPythonContext().  isIMC says whether it is an
\* ImplicitMatrixContext; row_bcs lists, per boundary condition, the index of
\* the sub-space it is defined on; extruded is mesh.cell_set._extruded of the
\* mesh its spaces live on.
Cxt(imc, W, bcs) ==
    [isIMC |-> imc, spaces |-> W, row_bcs |-> bcs, extruded |-> FALSE]
\* The same context on an extruded mesh.
OnExtruded(cxt) == [cxt EXCEPT !.extruded = TRUE]
NoCxt == Cxt(FALSE, <<>>, <<>>)

\* The options database entries read by initialize: the projection method
\* and the trace solver's initial-guess flag.
Opts(m, g) == [method |-> m, guess |-> g]

\* The nullspace an operator declares (P.getNullSpace()): a handle, 0 when
\* none is declared, and its basis vectors over the mixed space.
NullSpace(vecs) == [handle |-> 1, vecs |-> vecs]
NoNullSpace == [handle |-> 0, vecs |-> <<>>]

\* What a pc hands to initialize: its operator's context, its options and
\* the nullspace its operator declares.
PCN(cxt, opts, nsp) == [cxt |-> cxt, opts |-> opts, nullspace |-> nsp]
PC(cxt, opts) == PCN(cxt, opts, NoNullSpace)

\* The pcs offered to an instance of each class: well-formed ones, and one
\* for every way initialize can reject its input.
HybridPCs ==
    { PC(Cxt(TRUE, <<RT, DG>>, <<>>), Opts("L2", FALSE)),
      PCN(Cxt(TRUE, <<RT, DG>>, <<0>>), Opts("L2", TRUE),
          NullSpace(<<[i \in 0..1 |-> i], [i \in 0..1 |-> 1]>>)),
      PCN(Cxt(TRUE, <<DG, RT>>, <<>>), Opts("average", TRUE),
          NullSpace(<<[i \in 0..1 |-> 1 - i]>>)),
      PC(OnExtruded(Cxt(TRUE, <<RT, DG>>, <<>>)), Opts("L2", FALSE)),
      PC(Cxt(TRUE, <<RT, DG>>, <<>>), Opts("fortin", FALSE)),
      PC(Cxt(TRUE, <<RT, RT>>, <<>>), Opts("L2", FALSE)),
      PC(Cxt(TRUE, <<VDG, DG>>, <<>>), Opts("L2", FALSE)),
      PC(Cxt(TRUE, <<DG, CG>>, <<>>), Opts("L2", FALSE)),
      PC(Cxt(TRUE, <<VDG, DG, TR>>, <<>>), Opts("L2", FALSE)),
      PC(NoCxt, Opts("L2", FALSE)) }
StaticPCs ==
    { PC(Cxt(TRUE, <<VDG, DG, TR>>, <<>>), Opts("L2", FALSE)),
      PC(Cxt(TRUE, <<VDG, DG, TR>>, <<2>>), Opts("L2", TRUE)),
      PC(Cxt(TRUE, <<VDG, DG, TR>>, <<2, 0>>), Opts("L2", FALSE)),
      PC(Cxt(TRUE, <<VDG, DG, DG>>, <<>>), Opts("L2", FALSE)),
      PC(Cxt(TRUE, <<RT, DG>>, <<>>), Opts("L2", FALSE)),
      PC(NoCxt, Opts("L2", FALSE)) }

\* Python's V[i] on the 1-based tuple of spaces.
Space(W, i) == W[i + 1]

\* The role a component space plays in the operator's bilinear form.
Role(sp) == IF sp.family = "HDiv Trace" THEN "trace"
            ELSE IF sp.vector THEN "flux" ELSE "scalar"

\* The block of the bilinear form cxt.a coupling test space i with trial
\* space j, for coefficient value c: a mixed problem with the coefficient on
\* the two mass terms,
\*     c<q,t> - <u, div t> + <l, t.n> + <div q, v> + c<u,v> + <q.n, g>.
FormBlock(cxt, c, i, j) ==
    LET ri == Role(Space(cxt.spaces, i))
        rj == Role(Space(cxt.spaces, j))
    IN  CASE ri = "flux"   /\ rj = "flux"   -> c
          [] ri = "flux"   /\ rj = "scalar" -> 2
          [] ri = "flux"   /\ rj = "trace"  -> 1
          [] ri = "scalar" /\ rj = "flux"   -> 1
          [] ri = "scalar" /\ rj = "scalar" -> c
          [] ri = "trace"  /\ rj = "flux"   -> 1
          [] OTHER -> 0

\* The local inverse of a 2x2 block matrix m (a function on {0,1} x {0,1}).
Inv2(m) ==
    LET det == Sub(Mul(m[0][0], m[1][1]), Mul(m[0][1], m[1][0]))
        d   == Inv(det)
    IN  [i \in 0..1 |-> [j \in 0..1 |->
            IF i = j THEN Mul(d, m[1 - i][1 - j]) ELSE Mul(d, Neg(m[i][j]))]]

\* Row vector times 2x2 matrix times column vector.
Bilin(r, m, c) ==
    Add(Add(Mul(r[0], Mul(m[0][0], c[0])), Mul(r[0], Mul(m[0][1], c[1]))),
        Add(Mul(r[1], Mul(m[1][0], c[0])), Mul(r[1], Mul(m[1][1], c[1]))))

-----------------------------------------------------------------------------
(* The instance.                                                           *)

HybridStaticCondensationPC == "HybridStaticCondensationPC"
HybridizationPC == "HybridizationPC"
Kinds == {HybridStaticCondensationPC, HybridizationPC}

\* What an assembly callable (create_assembly_callable) or the averager has
\* closed over when initialize built it: the context whose form it assembles
\* and the role indices that were current.
Closure(cxt, v, p) == [cxt |-> cxt, vidx |-> v, pidx |-> p]
NoCall == Closure(NoCxt, 0, 0)

\* A matrix (allocate_matrix): id names the object, mat the values of its
\* PETSc handle, queued/pending the lazily scheduled assembly not yet
\* evaluated into the handle, bcs the sub-domains of the boundary conditions
\* it was allocated with, nullspace the basis attached by setNullSpace.
\* A basis records what the matrix was when it was attached: whether its
\* handle held evaluated values and whether a trace solver was bound to it.
Basis(vecs, assembled, bound) ==
    [attached |-> TRUE, vecs |-> vecs, assembled |-> assembled, bound |-> bound]
NoBasis == [attached |-> FALSE, vecs |-> <<>>, assembled |-> FALSE, bound |-> FALSE]
Matrix(id, bcs) ==
    [id |-> id, mat |-> 0, queued |-> 0, pending |-> FALSE, bcs |-> bcs,
     evaluated |-> FALSE, nullspace |-> NoBasis]
NoMatrix == Matrix(0, <<>>)

\* A KSP: the id of the matrix it was bound to by setOperators, its options
\* prefix and its initial-guess flag.
Ksp(prefix, op, guess) == [prefix |-> prefix, operator |-> op, guess |-> guess]
NoKsp == Ksp("", 0, FALSE)

\* A new instance: no attribute is set.  attrs is the set of attribute names
\* present; a field outside attrs holds a placeholder that no code can read.
NewInstance ==
    [ attrs |-> {},
      cxt |-> NoCxt, vidx |-> 0, pidx |-> 0,
      S |-> NoMatrix, _assemble_S |-> NoCall, trace_ksp |-> NoKsp,
      \* HybridizationPC
      broken_solution |-> Zero2, broken_residual |-> Zero2,
      trace_solution |-> 0,
      unbroken_solution |-> Zero2, unbroken_residual |-> Zero2,
      hdiv_mass_ksp |-> NoKsp, _primal_r |-> 0, _assemble_broken_r |-> NoCall,
      schur_rhs |-> 0, _assemble_Srhs |-> NoCall,
      _sub_unknown |-> NoCall, _elim_unknown |-> NoCall,
      hdiv_projection_ksp |-> NoKsp, _projection_rhs |-> 0,
      _assemble_projection_rhs |-> NoCall,
      _method |-> "", averager |-> NoCall,
      \* HybridStaticCondensationPC
      r_lambda |-> 0, residual |-> Zero3, r_lambda_thunk |-> 0,
      _assemble_Srhs_thunk |-> NoCall, solution |-> Zero3,
      _assemble_u |-> NoCall, _assemble_q |-> NoCall ]

Has(s, a) == a \in s.attrs

\* The result of a handler: the instance afterwards and the exception raised
\* ("" when it returned).
Outcome(s, e) == [self |-> s, err |-> e]

-----------------------------------------------------------------------------
(* Collaborators: assembly of the reduced operator, the linear solvers.    *)

\* The HDiv mass matrix assemble(dot(p, q)*dx).
Mass == 2

\* Atilde: the mixed operator with broken arguments, by space index.
Atilde(cxt, c) == [i \in 0..1 |-> [j \in 0..1 |-> FormBlock(cxt, c, i, j)]]

\* The interior-facet measures K is integrated over: dS_h and dS_v on an
\* extruded mesh, dS otherwise.
FacetMeasures(cxt) == IF cxt.extruded THEN <<"dS_h", "dS_v">> ELSE <<"dS">>

\* gammar('+') * jump(sigma, n) * measure with sigma = TrialFunctions(V_d)[v],
\* against space i.  The one trace unknown lives on the one interior facet
\* of the mesh, a vertical facet when the mesh is extruded: the integral
\* over horizontal interior facets is zero.
JumpIntegral(v, i, measure) ==
    IF i = v /\ measure \in {"dS", "dS_v"} THEN 1 ELSE 0

\* K: the sum of the jump integrals over the facet measures of the mesh, the
\* one block of the trace operator against space i.
RECURSIVE SumMeasures(_, _, _)
SumMeasures(ms, v, i) ==
    IF ms = <<>> THEN 0
    ELSE Add(JumpIntegral(v, i, Head(ms)), SumMeasures(Tail(ms), v, i))
KBlock(cxt, v, i) == SumMeasures(FacetMeasures(cxt), v, i)
KRow(cxt, v) == [i \in 0..1 |-> KBlock(cxt, v, i)]

\* schur_comp = K * Atilde.inv * K.T
HybridSchurComp(cl, c) == Bilin(KRow(cl.cxt, cl.vidx), Inv2(Atilde(cl.cxt, c)), KRow(cl.cxt, cl.vidx))

\* S = J - L * M.inv * K of the three-space layout, M = [[A,B],[D,E]],
\* K = [C;F], L = [G,H].
StaticSchurComp(cl, c) ==
    LET M == [i \in 0..1 |-> [j \in 0..1 |-> FormBlock(cl.cxt, c, i, j)]]
        K == [i \in 0..1 |-> FormBlock(cl.cxt, c, i, 2)]
        L == [j \in 0..1 |-> FormBlock(cl.cxt, c, 2, j)]
        J == FormBlock(cl.cxt, c, 2, 2)
    IN  Sub(J, Bilin(L, Inv2(M), K))

SchurComp(k, cl, c) ==
    IF k = HybridizationPC THEN HybridSchurComp(cl, c) ELSE StaticSchurComp(cl, c)

\* assemble_S as it would be if the callable did not zero its tensor first.
assemble_S_accumulate(k, s, c) ==
    [s EXCEPT !.S.queued = Add(s.S.mat, SchurComp(k, s._assemble_S, c)),
              !.S.pending = TRUE]

\* self._assemble_S(): schedules the assembly of the Schur complement, for
\* the current coefficient, into the tensor self.S (zeroed first).
assemble_S(k, s, c) ==
    [s EXCEPT !.S.queued = SchurComp(k, s._assemble_S, c), !.S.pending = TRUE]

\* self.S.force_evaluation(): evaluates what is scheduled into the handle.
force_evaluation(s) ==
    IF s.S.pending
    THEN [s EXCEPT !.S.mat = s.S.queued, !.S.queued = 0, !.S.pending = FALSE,
                   !.S.evaluated = TRUE]
    ELSE s

\* ksp.solve(b, x) of the trace solver: one Richardson sweep on the bound
\* matrix, from x when the initial guess is declared nonzero and from zero
\* otherwise.
KspStart(ksp, x0) == IF ksp.guess THEN x0 ELSE 0
KspSolve(ksp, mat, b, x0) ==
    LET start == KspStart(ksp, x0)
    IN  Add(start, Sub(b, Mul(mat, start)))
KspConverged(mat, b, x) == Mul(mat, x) = b

\* The mass-matrix solves (hdiv_mass_ksp, hdiv_projection_ksp) are exact.
MassSolve(b) == Mul(Inv(Mass), b)

-----------------------------------------------------------------------------
(* initialize                                                              *)

\* A boundary condition of the reduced operator: DirichletBC(space, value,
\* sub_domain); supplied says whether it is one of the context's own.
TraceBC(sub, supplied) == [V |-> "trace", sub_domain |-> sub, supplied |-> supplied]

\* trace_bcs of HybridizationPC.initialize: the homogeneous conditions it
\* builds itself, on the exterior boundary and, on an extruded mesh, on the
\* bottom and the top as well.
trace_bcs(cxt) ==
    IF cxt.extruded
    THEN <<TraceBC("on_boundary", FALSE), TraceBC("bottom", FALSE),
           TraceBC("top", FALSE)>>
    ELSE <<TraceBC("on_boundary", FALSE)>>

\* The result of initialize: an Outcome and whether the warning was logged.
InitOutcome(s, e, w) == [self |-> s, err |-> e, warned |-> w]

\* The loop "Automagically determine which spaces are vector and scalar",
\* from space i on: the instance afterwards, or the failed assertion.
RECURSIVE AssignRoles(_, _, _)
AssignRoles(s, V, i) ==
    IF i >= Len(V) THEN Outcome(s, "")
    ELSE IF Space(V, i).sobolev = "HDiv"
         THEN AssignRoles([s EXCEPT !.vidx = i, !.attrs = @ \cup {"vidx"}], V, i + 1)
         ELSE IF Space(V, i).sobolev = "L2"
              THEN AssignRoles([s EXCEPT !.pidx = i, !.attrs = @ \cup {"pidx"}], V, i + 1)
              ELSE Outcome(s, "AssertionError")

\* The forward argument of the create_schur_nullspace call: -K * Atilde, a
\* row over the broken space.
Forward(cl, c) ==
    [j \in 0..1 |->
        Neg(Add(Mul(KRow(cl.cxt, cl.vidx)[0], Atilde(cl.cxt, c)[0][j]),
                Mul(KRow(cl.cxt, cl.vidx)[1], Atilde(cl.cxt, c)[1][j])))]

\* project(tmp, tmp_b): the L2 projection into the broken space, component
\* by component a mass solve of the function tested against the broken
\* space.
project(tmp) == [i \in 0..1 |-> MassSolve(Mul(Mass, tmp[i]))]

\* assemble(forward_action, tensor=tnsp_tmp) with
\* forward_action = forward * AssembledVector(tmp_b)
forward_action(forward, tmp_b) ==
    Add(Mul(forward[0], tmp_b[0]), Mul(forward[1], tmp_b[1]))

\* v.normalize(): the vector divided by its norm, the magnitude of its one
\* entry; a vector of zero norm is left as it is.
Norm(v) == v
Normalize(v) == IF Norm(v) = 0 THEN v ELSE Mul(v, Inv(Norm(v)))

\* The loop of create_schur_nullspace as it would be if it appended the
\* shared temporary itself instead of a copy: every entry is the temporary,
\* which holds what the last iteration assembled.
TransferLoop_aliased(vecs, forward) ==
    [i \in DOMAIN vecs |-> forward_action(forward, project(vecs[Len(vecs)]))]

\* The loop of create_schur_nullspace over the declared vectors: v is copied
\* into tmp, projected into tmp_b, the forward action assembled into
\* tnsp_tmp and a copy of tnsp_tmp appended.
TransferLoop(vecs, forward) ==
    [i \in DOMAIN vecs |-> forward_action(forward, project(vecs[i]))]

\* create_schur_nullspace: None (an unattached basis) when the operator
\* declares no nullspace, the normalized transferred vectors otherwise.
create_schur_nullspace(nullspace, forward) ==
    IF nullspace.handle = 0 THEN <<FALSE, <<>>>>
    ELSE LET new_vecs == TransferLoop(nullspace.vecs, forward)
         IN  <<TRUE, [i \in DOMAIN new_vecs |-> Normalize(new_vecs[i])]>>

\* if nullspace: Smat.setNullSpace(nullspace)
setNullSpace(s, nullspace) ==
    IF nullspace[1]
    THEN [s EXCEPT !.S.nullspace =
              Basis(nullspace[2], s.S.evaluated /\ ~s.S.pending,
                    Has(s, "trace_ksp") /\ s.trace_ksp.operator = s.S.id)]
    ELSE s

\* The attributes HybridizationPC.initialize sets after the role indices, up
\* to and including _method.
HybridAttrs ==
    { "broken_solution", "broken_residual", "trace_solution", "unbroken_solution",
      "unbroken_residual", "hdiv_mass_ksp", "_primal_r", "_assemble_broken_r",
      "schur_rhs", "_assemble_Srhs", "S", "_assemble_S", "trace_ksp",
      "_sub_unknown", "_elim_unknown", "_projection_rhs",
      "_assemble_projection_rhs", "hdiv_projection_ksp", "_method" }

\* HybridizationPC.initialize, from "Create the space of approximate traces"
\* to the read of the projection method: every buffer is a new zero Function,
\* S is allocated with the boundary conditions on the trace space, assembled
\* and evaluated, the transferred nullspace is attached to it and the
\* solvers are bound.
HybridSetUp(s, opts, nsp, c, gen) ==
    LET cl == Closure(s.cxt, s.vidx, s.pidx)
        s1 == [s EXCEPT
                 !.broken_solution = Zero2, !.broken_residual = Zero2,
                 !.trace_solution = 0,
                 !.unbroken_solution = Zero2, !.unbroken_residual = Zero2,
                 !.hdiv_mass_ksp = Ksp("hybridization_hdiv_residual_", gen, FALSE),
                 !._primal_r = 0, !._assemble_broken_r = cl,
                 !.schur_rhs = 0, !._assemble_Srhs = cl,
                 !.S = Matrix(gen, trace_bcs(s.cxt)),
                 !._assemble_S = cl]
        s2 == setNullSpace(force_evaluation(assemble_S(HybridizationPC, s1, c)),
                           create_schur_nullspace(nsp, Forward(cl, c)))
    IN  [s2 EXCEPT
           !.trace_ksp = Ksp("hybridization_", s2.S.id, opts.guess),
           !._sub_unknown = cl, !._elim_unknown = cl,
           !.hdiv_projection_ksp = Ksp("hybridization_hdiv_projection_", gen, FALSE),
           !._projection_rhs = 0, !._assemble_projection_rhs = cl,
           !._method = opts.method,
           !.attrs = @ \cup HybridAttrs]

HybridizationPC_initialize(s, pc, c, gen) ==
    LET s0 == [s EXCEPT !.cxt = pc.cxt, !.attrs = @ \cup {"cxt"}]
        V  == pc.cxt.spaces
    IN  IF ~pc.cxt.isIMC THEN InitOutcome(s0, "ValueError", FALSE)
        ELSE IF Len(V) # 2 THEN InitOutcome(s0, "ValueError", FALSE)
        ELSE IF \A i \in 0..1 : Space(V, i).vector
             THEN InitOutcome(s0, "ValueError", FALSE)
        ELSE LET r == AssignRoles(s0, V, 0) IN
             IF r.err # "" THEN InitOutcome(r.self, r.err, FALSE)
             ELSE IF ~Has(r.self, "vidx")
                  THEN InitOutcome(r.self, "AttributeError", FALSE)
             ELSE LET w  == pc.cxt.row_bcs # <<>>
                      s3 == HybridSetUp(r.self, pc.opts, pc.nullspace, c, gen)
                  IN  IF s3._method = "average"
                      THEN InitOutcome(
                               [s3 EXCEPT !.averager = Closure(s3.cxt, s3.vidx, s3.pidx),
                                          !.attrs = @ \cup {"averager"}], "", w)
                      ELSE IF s3._method # "L2"
                           THEN InitOutcome(s3, "AssertionError", w)
                           ELSE InitOutcome(s3, "", w)

\* The attributes HybridStaticCondensationPC.initialize sets after cxt.
StaticAttrs ==
    { "S", "_assemble_S", "trace_ksp", "r_lambda", "residual", "r_lambda_thunk",
      "_assemble_Srhs_thunk", "solution", "_assemble_u", "_assemble_q" }

\* The loop over the context's boundary conditions: each must live on the
\* trace space T = W[2] and is re-homed on the duplicate trace space Tr.
StaticBCsOk(cxt) == \A k \in DOMAIN cxt.row_bcs : cxt.row_bcs[k] = 2
StaticBCs(cxt) == [k \in DOMAIN cxt.row_bcs |-> TraceBC("on_boundary", TRUE)]

HybridStaticCondensationPC_initialize(s, pc, c, gen) ==
    LET s0 == [s EXCEPT !.cxt = pc.cxt, !.attrs = @ \cup {"cxt"}]
        W  == pc.cxt.spaces
        w  == pc.cxt.row_bcs # <<>>
    IN  IF ~pc.cxt.isIMC THEN InitOutcome(s0, "ValueError", FALSE)
        ELSE IF Len(W) # 3 THEN InitOutcome(s0, "RuntimeError", FALSE)
        ELSE IF Space(W, 2).family # "HDiv Trace"
             THEN InitOutcome(s0, "AssertionError", FALSE)
        ELSE IF ~StaticBCsOk(pc.cxt) THEN InitOutcome(s0, "AssertionError", w)
        ELSE LET cl == Closure(s0.cxt, 0, 0)
                 s1 == [s0 EXCEPT !.S = Matrix(gen, StaticBCs(pc.cxt)),
                                  !._assemble_S = cl]
                 s2 == force_evaluation(assemble_S(HybridStaticCondensationPC, s1, c))
             IN  InitOutcome(
                     [s2 EXCEPT
                        !.trace_ksp = Ksp("hybrid_sc_", s2.S.id, pc.opts.guess),
                        !.r_lambda = 0, !.residual = Zero3, !.r_lambda_thunk = 0,
                        !._assemble_Srhs_thunk = cl,
                        !.solution = Zero3,
                        !._assemble_u = cl, !._assemble_q = cl,
                        !.attrs = @ \cup StaticAttrs], "", w)

-----------------------------------------------------------------------------
(* update                                                                  *)

\* update as it would be if it allocated the operator anew.
PC_update_realloc(k, s, c) ==
    IF ~Has(s, "_assemble_S") THEN Outcome(s, "AttributeError")
    ELSE Outcome(force_evaluation(assemble_S(k,
             [s EXCEPT !.S = Matrix(s.S.id + 1, s.S.bcs)], c)), "")

\* update as it would be without self.S.force_evaluation().
PC_update_noflush(k, s, c) ==
    IF ~Has(s, "_assemble_S") THEN Outcome(s, "AttributeError")
    ELSE Outcome(assemble_S(k, s, c), "")

\* update of either class: self._assemble_S() then self.S.force_evaluation().
\* On an instance without the attribute the first line raises.
PC_update(k, s, c) ==
    IF ~Has(s, "_assemble_S") THEN Outcome(s, "AttributeError")
    ELSE Outcome(force_evaluation(assemble_S(k, s, c)), "")

-----------------------------------------------------------------------------
(* apply                                                                   *)

\* A buffer component, and all components of a buffer of n spaces.
Buf(name, i) == <<name, i>>
All(name, n) == { Buf(name, i) : i \in 0..(n - 1) }

\* One stage of a call as it ran: the buffers it read and those it wrote.
Ev(stage, reads, writes) == [stage |-> stage, reads |-> reads, writes |-> writes]

\* What the trace solve of a call did: the access mode the solution buffer
\* was opened with, the iterate the solver started from, the matrix values
\* and right-hand side it used, whether an assembly of the matrix was still
\* unevaluated, the result and the solver's convergence status.
NoSolve == [ran |-> FALSE, access |-> "", start |-> 0, mat |-> 0, rhs |-> 0,
            stale |-> FALSE, result |-> 0, converged |-> FALSE]

\* A call in progress: the instance, the caller's y, the stages run so far,
\* the trace solve, the exception raised.
Call(s, yv) == [self |-> s, y |-> yv, log |-> <<>>, solve |-> NoSolve, err |-> ""]
Step(a, s2, ev) == [a EXCEPT !.self = s2, !.log = Append(@, ev)]
Raise(a, e) == [a EXCEPT !.err = e]

\* with self.unbroken_residual.dat.vec_wo as v: x.copy(v)
HybridCopyX(a, x) ==
    Step(a, [a.self EXCEPT !.unbroken_residual = x],
         Ev("copy_x", All("x", 2), All("unbroken_residual", 2)))

\* unbroken_scalar_data.dat.copy(broken_scalar_data.dat)
HybridBreakScalar(a) ==
    LET s == a.self IN
    Step(a, [s EXCEPT !.broken_residual[s.pidx] = s.unbroken_residual[s.pidx]],
         Ev("copy_scalar_residual", {Buf("unbroken_residual", s.pidx)},
            {Buf("broken_residual", s.pidx)}))

\* self.hdiv_mass_ksp.solve(r, g): g = A.inv * r, A the HDiv mass matrix.
HybridMassSolve(a) ==
    LET s == a.self IN
    Step(a, [s EXCEPT !._primal_r = MassSolve(s.unbroken_residual[s.vidx])],
         Ev("hdiv_mass_solve", {Buf("unbroken_residual", s.vidx)}, {Buf("_primal_r", 0)}))

\* self._assemble_broken_r(): dot(self._primal_r, tau)*dx into the flux
\* component of the broken residual.
assemble_broken_r(a) ==
    LET s == a.self
        v == s._assemble_broken_r.vidx
    IN  Step(a, [s EXCEPT !.broken_residual[v] = Mul(Mass, s._primal_r)],
             Ev("assemble_broken_r", {Buf("_primal_r", 0)}, {Buf("broken_residual", v)}))

\* self._assemble_Srhs(): K * Atilde.inv * AssembledVector(broken_residual)
assemble_Srhs(a, c) ==
    LET s  == a.self
        cl == s._assemble_Srhs
    IN  Step(a, [s EXCEPT !.schur_rhs =
                     Bilin(KRow(cl.cxt, cl.vidx), Inv2(Atilde(cl.cxt, c)), s.broken_residual)],
             Ev("assemble_Srhs", All("broken_residual", 2), {Buf("schur_rhs", 0)}))

\* The access mode the solution buffer is opened with.
TraceAccess(ksp) == IF ksp.guess THEN "rw" ELSE "wo"

\* The trace solve as it would be if the solution buffer were zeroed before
\* every solve, whatever the initial-guess flag.
TraceSolve_zeroed(s, b, x0) ==
    LET res == KspSolve(s.trace_ksp, s.S.mat, b, 0)
    IN  [ran |-> TRUE, access |-> TraceAccess(s.trace_ksp),
         start |-> KspStart(s.trace_ksp, 0), mat |-> s.S.mat, rhs |-> b,
         stale |-> s.S.pending, result |-> res,
         converged |-> KspConverged(s.S.mat, b, res)]

\* The record of a trace solve of right-hand side b into a buffer holding x0.
TraceSolve(s, b, x0) ==
    LET res == KspSolve(s.trace_ksp, s.S.mat, b, x0)
    IN  [ran |-> TRUE, access |-> TraceAccess(s.trace_ksp),
         start |-> KspStart(s.trace_ksp, x0), mat |-> s.S.mat, rhs |-> b,
         stale |-> s.S.pending, result |-> res,
         converged |-> KspConverged(s.S.mat, b, res)]

TraceReads(ksp, buf) == IF TraceAccess(ksp) = "rw" THEN {buf} ELSE {}

\* The "HybridSolve" region: self.trace_ksp.solve(b, x_trace).
HybridTraceSolve(a) ==
    LET s   == a.self
        sol == TraceSolve(s, s.schur_rhs, s.trace_solution)
    IN  [Step(a, [s EXCEPT !.trace_solution = sol.result],
              Ev("trace_solve",
                 {Buf("schur_rhs", 0), Buf("S", 0)}
                     \cup TraceReads(s.trace_ksp, Buf("trace_solution", 0)),
                 {Buf("trace_solution", 0)}))
         EXCEPT !.solve = sol]

\* self._sub_unknown(): u = M.inv * (f - C * A.inv * g - R * lambdar) with
\* M = D - C * A.inv * B and R = K_1.T - C * A.inv * K_0.T.
sub_unknown(a, c) ==
    LET s   == a.self
        cl  == s._sub_unknown
        id0 == cl.vidx
        id1 == cl.pidx
        A   == FormBlock(cl.cxt, c, id0, id0)
        B   == FormBlock(cl.cxt, c, id0, id1)
        C   == FormBlock(cl.cxt, c, id1, id0)
        D   == FormBlock(cl.cxt, c, id1, id1)
        K_0 == KBlock(cl.cxt, cl.vidx, id0)
        K_1 == KBlock(cl.cxt, cl.vidx, id1)
        g   == s.broken_residual[id0]
        f   == s.broken_residual[id1]
        lambdar == s.trace_solution
        M   == Sub(D, Mul(C, Mul(Inv(A), B)))
        R   == Sub(K_1, Mul(C, Mul(Inv(A), K_0)))
        u_rec == Mul(Inv(M), Sub(Sub(f, Mul(C, Mul(Inv(A), g))), Mul(R, lambdar)))
    IN  Step(a, [s EXCEPT !.broken_solution[id1] = u_rec],
             Ev("sub_unknown",
                {Buf("broken_residual", id0), Buf("broken_residual", id1),
                 Buf("trace_solution", 0)},
                {Buf("broken_solution", id1)}))

\* self._elim_unknown(): sigma = A.inv * (g - B * u - K_0.T * lambdar)
elim_unknown(a, c) ==
    LET s   == a.self
        cl  == s._elim_unknown
        id0 == cl.vidx
        id1 == cl.pidx
        A   == FormBlock(cl.cxt, c, id0, id0)
        B   == FormBlock(cl.cxt, c, id0, id1)
        K_0 == KBlock(cl.cxt, cl.vidx, id0)
        g   == s.broken_residual[id0]
        u   == s.broken_solution[id1]
        lambdar == s.trace_solution
        sigma_rec == Mul(Inv(A), Sub(Sub(g, Mul(B, u)), Mul(K_0, lambdar)))
    IN  Step(a, [s EXCEPT !.broken_solution[id0] = sigma_rec],
             Ev("elim_unknown",
                {Buf("broken_residual", id0), Buf("broken_solution", id1),
                 Buf("trace_solution", 0)},
                {Buf("broken_solution", id0)}))

\* _reconstruct with its two calls in the other order.
reconstruct_swapped(a, c) == sub_unknown(elim_unknown(a, c), c)

\* HybridizationPC._reconstruct
_reconstruct(a, c) == elim_unknown(sub_unknown(a, c), c)

\* broken_pressure.dat.copy(unbroken_pressure.dat)
HybridRecoverScalar(a) ==
    LET s == a.self IN
    Step(a, [s EXCEPT !.unbroken_solution[s.pidx] = s.broken_solution[s.pidx]],
         Ev("copy_scalar_solution", {Buf("broken_solution", s.pidx)},
            {Buf("unbroken_solution", s.pidx)}))

\* self.averager.project(): the broken flux averaged into the HDiv space.
HybridAverage(a) ==
    LET s == a.self
        v == s.averager.vidx
    IN  Step(a, [s EXCEPT !.unbroken_solution[v] = s.broken_solution[v]],
             Ev("average", {Buf("broken_solution", v)}, {Buf("unbroken_solution", v)}))

\* self._assemble_projection_rhs(): dot(broken flux, q)*dx
assemble_projection_rhs(a) ==
    LET s == a.self
        v == s._assemble_projection_rhs.vidx
    IN  Step(a, [s EXCEPT !._projection_rhs = Mul(Mass, s.broken_solution[v])],
             Ev("assemble_projection_rhs", {Buf("broken_solution", v)},
                {Buf("_projection_rhs", 0)}))

\* self.hdiv_projection_ksp.solve(b_proj, sol)
HybridProjectionSolve(a) ==
    LET s == a.self IN
    Step(a, [s EXCEPT !.unbroken_solution[s.vidx] = MassSolve(s._projection_rhs)],
         Ev("hdiv_projection_solve", {Buf("_projection_rhs", 0)},
            {Buf("unbroken_solution", s.vidx)}))

\* The choice of the projection in the "HybridRecover" region.
HybridProject(a) ==
    IF a.self._method = "average" THEN HybridAverage(a)
    ELSE HybridProjectionSolve(assemble_projection_rhs(a))

\* with self.unbroken_solution.dat.vec_ro as v: v.copy(y)
HybridCopyY(a) ==
    [Step(a, a.self, Ev("copy_y", All("unbroken_solution", 2), All("y", 2)))
     EXCEPT !.y = a.self.unbroken_solution]

HybridizationPC_apply(s, x, yv, c) ==
    LET a0 == Call(s, yv) IN
    IF ~Has(s, "unbroken_residual") THEN Raise(a0, "AttributeError")
    ELSE LET a1 == HybridCopyX(a0, x) IN
         IF ~Has(s, "pidx") \/ ~Has(s, "vidx") THEN Raise(a1, "AttributeError")
         ELSE HybridCopyY(HybridProject(HybridRecoverScalar(_reconstruct(
                  HybridTraceSolve(assemble_Srhs(assemble_broken_r(
                      HybridMassSolve(HybridBreakScalar(a1))), c)), c))))


\* with self.residual.dat.vec_wo as v: x.copy(v)
StaticCopyX(a, x) ==
    Step(a, [a.self EXCEPT !.residual = x],
         Ev("copy_x", All("x", 3), All("residual", 3)))

\* self._assemble_Srhs_thunk(): -L * M.inv * AssembledVector(v1v2)
assemble_Srhs_thunk(a, c) ==
    LET s  == a.self
        cl == s._assemble_Srhs_thunk
        M  == [i \in 0..1 |-> [j \in 0..1 |-> FormBlock(cl.cxt, c, i, j)]]
        L  == [j \in 0..1 |-> FormBlock(cl.cxt, c, 2, j)]
        v1v2 == [i \in 0..1 |-> s.residual[i]]
    IN  Step(a, [s EXCEPT !.r_lambda_thunk = Neg(Bilin(L, Inv2(M), v1v2))],
             Ev("assemble_Srhs_thunk", {Buf("residual", 0), Buf("residual", 1)},
                {Buf("r_lambda_thunk", 0)}))

\* self.r_lambda.assign(self.residual.split()[2] + self.r_lambda_thunk)
StaticTraceRhs(a) ==
    LET s == a.self IN
    Step(a, [s EXCEPT !.r_lambda = Add(s.residual[2], s.r_lambda_thunk)],
         Ev("assign_r_lambda", {Buf("residual", 2), Buf("r_lambda_thunk", 0)},
            {Buf("r_lambda", 0)}))

\* The "HybridSCSolve" region: self.trace_ksp.solve(b, x_trace) into the
\* trace component of self.solution.
StaticTraceSolve(a) ==
    LET s   == a.self
        sol == TraceSolve(s, s.r_lambda, s.solution[2])
    IN  [Step(a, [s EXCEPT !.solution[2] = sol.result],
              Ev("trace_solve",
                 {Buf("r_lambda", 0), Buf("S", 0)}
                     \cup TraceReads(s.trace_ksp, Buf("solution", 2)),
                 {Buf("solution", 2)}))
         EXCEPT !.solve = sol]

\* self._assemble_u(): u = Se.inv * (v2 - D * A.inv * v1 - Sf * lambda_h)
\* with Se = E - D * A.inv * B and Sf = F - D * A.inv * C.
assemble_u(a, c) ==
    LET s  == a.self
        cl == s._assemble_u
        A  == FormBlock(cl.cxt, c, 0, 0)
        B  == FormBlock(cl.cxt, c, 0, 1)
        C  == FormBlock(cl.cxt, c, 0, 2)
        D  == FormBlock(cl.cxt, c, 1, 0)
        E  == FormBlock(cl.cxt, c, 1, 1)
        F  == FormBlock(cl.cxt, c, 1, 2)
        Se == Sub(E, Mul(D, Mul(Inv(A), B)))
        Sf == Sub(F, Mul(D, Mul(Inv(A), C)))
        v1 == s.residual[0]
        v2 == s.residual[1]
        lambda_h == s.solution[2]
    IN  Step(a, [s EXCEPT !.solution[1] =
                     Mul(Inv(Se), Sub(Sub(v2, Mul(D, Mul(Inv(A), v1))), Mul(Sf, lambda_h)))],
             Ev("assemble_u", {Buf("residual", 0), Buf("residual", 1), Buf("solution", 2)},
                {Buf("solution", 1)}))

\* self._assemble_q(): q = A.inv * (v1 - B * u_h - C * lambda_h)
assemble_q(a, c) ==
    LET s  == a.self
        cl == s._assemble_q
        A  == FormBlock(cl.cxt, c, 0, 0)
        B  == FormBlock(cl.cxt, c, 0, 1)
        C  == FormBlock(cl.cxt, c, 0, 2)
        v1 == s.residual[0]
        u_h == s.solution[1]
        lambda_h == s.solution[2]
    IN  Step(a, [s EXCEPT !.solution[0] =
                     Mul(Inv(A), Sub(Sub(v1, Mul(B, u_h)), Mul(C, lambda_h)))],
             Ev("assemble_q", {Buf("residual", 0), Buf("solution", 1), Buf("solution", 2)},
                {Buf("solution", 0)}))

\* The "HybridSCReconstruct" region.
StaticReconstruct(a, c) == assemble_q(assemble_u(a, c), c)

\* with self.solution.dat.vec_ro as w: w.copy(y)
StaticCopyY(a) ==
    [Step(a, a.self, Ev("copy_y", All("solution", 3), All("y", 3)))
     EXCEPT !.y = a.self.solution]

HybridStaticCondensationPC_apply(s, x, yv, c) ==
    LET a0 == Call(s, yv) IN
    IF ~Has(s, "residual") THEN Raise(a0, "AttributeError")
    ELSE StaticCopyY(StaticReconstruct(StaticTraceSolve(StaticTraceRhs(
             assemble_Srhs_thunk(StaticCopyX(a0, x), c))), c))

PC_apply(k, s, x, yv, c) ==
    IF k = HybridizationPC THEN HybridizationPC_apply(s, x, yv, c)
    ELSE HybridStaticCondensationPC_apply(s, x, yv, c)

PC_initialize(k, s, pc, c, gen) ==
    IF k = HybridizationPC THEN HybridizationPC_initialize(s, pc, c, gen)
    ELSE HybridStaticCondensationPC_initialize(s, pc, c, gen)

-----------------------------------------------------------------------------
(* applyTranspose                                                          *)

\* applyTranspose as it would be with an empty body.
PC_applyTranspose_silent(s, x, yv) == Call(s, yv)

\* applyTranspose of either class: raise NotImplementedError(...)
PC_applyTranspose(s, x, yv) == Raise(Call(s, yv), "NotImplementedError")

-----------------------------------------------------------------------------
(* view                                                                    *)

\* HybridizationPC.view on a viewer at indentation t: the indentation
\* afterwards and the exception raised.  The attribute reads that can fail
\* are those of the three solvers and of _method.
ViewOutcome(t, e) == [tab |-> t, err |-> e]
HybridizationPC_view(s, t) ==
    LET t1 == t + 1 IN                       \* pushASCIITab
    IF ~Has(s, "hdiv_mass_ksp") THEN ViewOutcome(t1, "AttributeError")
    ELSE LET t2 == t1 - 1                    \* popASCIITab
             t3 == t2 + 1                    \* pushASCIITab
         IN  IF ~Has(s, "trace_ksp") THEN ViewOutcome(t3, "AttributeError")
             ELSE LET t4 == t3 - 1           \* popASCIITab
                      t5 == t4 + 1           \* pushASCIITab
                  IN  IF ~Has(s, "_method") THEN ViewOutcome(t5, "AttributeError")
                      ELSE IF s._method = "average"
                           THEN ViewOutcome(t5 - 1, "")          \* popASCIITab
                           ELSE ViewOutcome((t5 + 1) - 1, "")    \* push, pop

\* HybridStaticCondensationPC defines no view.
PC_view(k, s, t) ==
    IF k = HybridizationPC THEN HybridizationPC_view(s, t) ELSE ViewOutcome(t, "")

-----------------------------------------------------------------------------
(* Assembly of a scalar tensor over an extruded mesh.                      *)

\* ExtrudedMesh(UnitIntervalMesh(ncells), layers): ncells columns of layers
\* cells each over the unit square.
ExtrudedMesh(ncells, layers) == [ncells |-> ncells, layers |-> layers]

\* Scalars are exact fractions of the domain: a value v stands for
\* v / Units(mesh), so that 1.0 is Units(mesh).
Units(mesh) == mesh.ncells * mesh.layers
One(mesh) == Units(mesh)

\* The measure of one cell: the base cell's width times the layer's height.
CellMeasure(mesh) == (Units(mesh) \div mesh.ncells) \div mesh.layers

\* The cells of a base-mesh iteration that does not descend into the
\* layers.
Cells_base(mesh) == mesh.ncells

\* The cells the assembly loop visits: every layer of every column.
Cells(mesh) == mesh.ncells * mesh.layers

\* The element tensor of Tensor(one * dx) on a cell: rank 0, its one entry
\* at the empty multi-index.
LocalTensor(mesh) == [rank |-> 0, entries |-> [ix \in {<<>>} |-> 1 * CellMeasure(mesh)]]

\* tensor[key]: the block of a tensor selected by one index per axis.
Block(tensor, key) ==
    [rank |-> tensor.rank,
     entries |-> [ix \in {jx \in DOMAIN tensor.entries :
                             \A a \in DOMAIN key : jx[a] = key[a]}
                    |-> tensor.entries[ix]]]

\* The element tensor of an expression on a cell.
Local(expr, mesh) ==
    IF expr = "block" THEN Block(LocalTensor(mesh), <<>>) ELSE LocalTensor(mesh)

\* The scalars assembled so far, by expression (-1: not assembled).
Scalars(tensor, block) == [tensor |-> tensor, block |-> block]
NoScalars == Scalars(-1, -1)

-----------------------------------------------------------------------------
(* The state machine.                                                      *)

NSpaces(k) == IF k = HybridizationPC THEN 2 ELSE 3
Vecs(k) == [0..(NSpaces(k) - 1) -> 0..MaxX]
PCs(k) == IF k = HybridizationPC THEN HybridPCs ELSE StaticPCs
Coefficients == {1, 2}

\* The outcome of a call, kept for the properties: the handler, the
\* exception it raised, the stages it ran, its trace solve, whether y was
\* written, whether a warning was logged, and the values the handle of S
\* held when the call was made.
Last(op, e, log, solve, wroteY, warned) ==
    [op |-> op, err |-> e, log |-> log, solve |-> solve,
     wroteY |-> wroteY, warned |-> warned, prevMat |-> self.S.mat]

WritesY(log) == \E k \in DOMAIN log : \E b \in log[k].writes : b[1] = "y"

Init ==
    /\ kind \in Kinds
    /\ self = NewInstance
    /\ coeff = 1
    /\ y = [i \in 0..(NSpaces(kind) - 1) |-> 0]
    /\ viewer = 0
    /\ nInit = 0
    /\ initOk = FALSE
    /\ last = Last("new", "", <<>>, NoSolve, FALSE, FALSE)
    /\ tmesh = ExtrudedMesh(1, 1)
    /\ texpr = "none"
    /\ tcell = 0
    /\ tacc = 0
    /\ tres = NoScalars

Initialize ==
    /\ nInit < MaxInit
    /\ \E pc \in PCs(kind) :
         \E r \in {PC_initialize(kind, self, pc, coeff, nInit + 1)} :
             /\ self' = r.self
             /\ last' = Last("initialize", r.err, <<>>, NoSolve, FALSE, r.warned)
             /\ initOk' = (initOk \/ r.err = "")
    /\ nInit' = nInit + 1
    /\ UNCHANGED <<kind, coeff, y, viewer>>
    /\ UNCHANGED tvars

Update ==
    /\ \E r \in {PC_update(kind, self, coeff)} :
           /\ self' = r.self
           /\ last' = Last("update", r.err, <<>>, NoSolve, FALSE, FALSE)
    /\ UNCHANGED <<kind, coeff, y, viewer, nInit, initOk>>
    /\ UNCHANGED tvars

Apply ==
    /\ \E x \in Vecs(kind) :
         \E r \in {PC_apply(kind, self, x, y, coeff)} :
             /\ self' = r.self
             /\ y' = r.y
             /\ last' = Last("apply", r.err, r.log, r.solve, WritesY(r.log), FALSE)
    /\ UNCHANGED <<kind, coeff, viewer, nInit, initOk>>
    /\ UNCHANGED tvars

ApplyTranspose ==
    /\ \E x \in Vecs(kind) :
         \E r \in {PC_applyTranspose(self, x, y)} :
             /\ self' = r.self
             /\ y' = r.y
             /\ last' = Last("applyTranspose", r.err, r.log, r.solve, WritesY(r.log), FALSE)
    /\ UNCHANGED <<kind, coeff, viewer, nInit, initOk>>
    /\ UNCHANGED tvars

View ==
    /\ viewer < MaxTab
    /\ \E r \in {PC_view(kind, self, viewer)} :
           /\ viewer' = r.tab
           /\ last' = Last("view", r.err, <<>>, NoSolve, FALSE, FALSE)
    /\ UNCHANGED <<kind, self, coeff, y, nInit, initOk>>
    /\ UNCHANGED tvars

\* The application changes the value of the operator's coefficient.
SetCoefficient ==
    /\ \E c \in Coefficients \ {coeff} : coeff' = c
    /\ last' = Last("setCoefficient", "", <<>>, NoSolve, FALSE, FALSE)
    /\ UNCHANGED <<kind, self, y, viewer, nInit, initOk>>
    /\ UNCHANGED tvars

Next == Initialize \/ Update \/ Apply \/ ApplyTranspose \/ View \/ SetCoefficient

Spec == Init /\ [][Next]_vars

\* test_constant_one_tensor on a mesh of any size within the bounds:
\* assemble(Tensor(one * dx)), then assemble(Tensor(one * dx)[()]).
InitTensor ==
    /\ kind = HybridizationPC
    /\ self = NewInstance
    /\ coeff = 1
    /\ y = [i \in 0..(NSpaces(kind) - 1) |-> 0]
    /\ viewer = 0
    /\ nInit = 0
    /\ initOk = FALSE
    /\ last = Last("new", "", <<>>, NoSolve, FALSE, FALSE)
    /\ tmesh \in {ExtrudedMesh(n, l) : n \in 1..MaxCells, l \in 1..MaxLayers}
    /\ texpr = "tensor"
    /\ tcell = 0
    /\ tacc = 0
    /\ tres = NoScalars

\* The assembly loop visits one more cell and adds its element tensor.
AssembleCell ==
    /\ texpr \in {"tensor", "block"}
    /\ tcell < Cells(tmesh)
    /\ tacc' = tacc + Local(texpr, tmesh).entries[<<>>]
    /\ tcell' = tcell + 1
    /\ UNCHANGED <<tmesh, texpr, tres>>
    /\ UNCHANGED pcvars

\* The loop is over: assemble returns the scalar, and the test goes on to
\* its next expression.
AssembleReturn ==
    /\ texpr \in {"tensor", "block"}
    /\ tcell = Cells(tmesh)
    /\ tres' = [tres EXCEPT ![texpr] = tacc]
    /\ texpr' = IF texpr = "tensor" THEN "block" ELSE "done"
    /\ tcell' = 0
    /\ tacc' = 0
    /\ UNCHANGED tmesh
    /\ UNCHANGED pcvars

NextTensor == AssembleCell \/ AssembleReturn

SpecTensor == InitTensor /\ [][NextTensor]_vars

-----------------------------------------------------------------------------
(* Properties.                                                             *)

\* The trace solution of the instance: the Function trace_solution of
\* HybridizationPC, the trace component of solution otherwise.
TraceSolution(s) == IF kind = HybridizationPC THEN s.trace_solution ELSE s.solution[2]

\* The conforming solution apply copies into y.
FinalSolution(s) == IF kind = HybridizationPC THEN s.unbroken_solution ELSE s.solution

Initialized(s) == Has(s, "trace_ksp")
ZeroY == [i \in 0..(NSpaces(kind) - 1) |-> 0]
StageNames(log) == [k \in DOMAIN log |-> log[k].stage]
Succeeded(op) == last.op = op /\ last.err = ""

(* C1: applyTranspose always fails.  In every lifecycle state and for every
   x and y, a call of applyTranspose raises NotImplementedError, does not
   write to y and leaves every attribute of the instance as it was. *)
C1_ApplyTransposeAlwaysFails ==
    [][last'.op = "applyTranspose" =>
          /\ last'.err = "NotImplementedError"
          /\ ~last'.wroteY
          /\ y' = y
          /\ self' = self]_vars

\* applyTranspose has been called on an initialized instance whose y holds
\* the result of an earlier apply.
C1_Witness ==
    /\ last.op = "applyTranspose"
    /\ last.err = "NotImplementedError"
    /\ Initialized(self)
    /\ y # ZeroY

\* The stages of a successful apply, by class.
HybridStages(method) ==
    <<"copy_x", "copy_scalar_residual", "hdiv_mass_solve", "assemble_broken_r",
      "assemble_Srhs", "trace_solve", "sub_unknown", "elim_unknown",
      "copy_scalar_solution">>
    \o (IF method = "average" THEN <<"average">>
        ELSE <<"assemble_projection_rhs", "hdiv_projection_solve">>)
    \o <<"copy_y">>
StaticStages ==
    <<"copy_x", "assemble_Srhs_thunk", "assign_r_lambda", "trace_solve",
      "assemble_u", "assemble_q", "copy_y">>

\* The position in a log of the stage of a given name (0 when absent).
StageAt(log, name) ==
    IF \E k \in DOMAIN log : log[k].stage = name
    THEN CHOOSE k \in DOMAIN log : log[k].stage = name
    ELSE 0

\* In a log, the stage at position kf reads what the stage at position kw
\* wrote, kw runs first and nothing in between writes it again.
ReadsFrom(log, kf, kw) ==
    /\ 0 < kw /\ kw < kf
    /\ log[kw].writes \subseteq log[kf].reads
    /\ \A k \in (kw + 1)..(kf - 1) : log[k].writes \cap log[kw].writes = {}

(* C2 (as amended): every apply call that returns runs its stages in one
   fixed order.  HybridizationPC: copy of x, transfer to the broken residual
   (scalar copy, mass solve, broken-residual assembly), reduced right-hand
   side, one trace solve, u then sigma, scalar copy back and either the
   averager or the L2 projection (right-hand side, solve), copy into y.
   HybridStaticCondensationPC has no broken or conforming transfer: copy of
   x, reduced right-hand side (thunk, sum), one trace solve, u then q, copy
   into y.  In both the flux is computed from the u and the trace solution
   written in this same apply, y is written only by the last stage and holds
   the conforming solution. *)
C2_StagesInFixedOrder ==
    Succeeded("apply") =>
        LET log == last.log
            ks  == StageAt(log, "trace_solve")
            ku  == StageAt(log, IF kind = HybridizationPC THEN "sub_unknown" ELSE "assemble_u")
            kf  == StageAt(log, IF kind = HybridizationPC THEN "elim_unknown" ELSE "assemble_q")
        IN  /\ StageNames(log) = IF kind = HybridizationPC
                                 THEN HybridStages(self._method) ELSE StaticStages
            /\ ks < ku
            /\ ReadsFrom(log, kf, ku)
            /\ log[ks].writes \subseteq log[kf].reads
            /\ \A k \in DOMAIN log :
                   (\E b \in log[k].writes : b[1] = "y") => k = Len(log)
            /\ y = FinalSolution(self)

\* A HybridizationPC apply has returned with a nonzero trace solution and a
\* nonzero reconstructed scalar unknown.
C2_Witness ==
    /\ Succeeded("apply")
    /\ kind = HybridizationPC
    /\ self.trace_solution # 0
    /\ self.broken_solution[self._sub_unknown.pidx] # 0

\* The stage of the claim's list (1..7) a logged stage belongs to.
StageClass(name) ==
    CASE name = "copy_x" -> 1
      [] name \in {"copy_scalar_residual", "hdiv_mass_solve", "assemble_broken_r"} -> 2
      [] name \in {"assemble_Srhs", "assemble_Srhs_thunk", "assign_r_lambda"} -> 3
      [] name = "trace_solve" -> 4
      [] name \in {"sub_unknown", "elim_unknown", "assemble_u", "assemble_q"} -> 5
      [] name \in {"copy_scalar_solution", "average", "assemble_projection_rhs",
                   "hdiv_projection_solve"} -> 6
      [] name = "copy_y" -> 7
      [] OTHER -> 0

\* C2 as stated: every apply that returns, of either class, runs all seven
\* stages (1) .. (7) in that order, with exactly one trace solve.
C2_SevenStages ==
    Succeeded("apply") =>
        LET log == last.log IN
        /\ {StageClass(log[k].stage) : k \in DOMAIN log} = 1..7
        /\ \A j, k \in DOMAIN log :
               j < k => StageClass(log[j].stage) <= StageClass(log[k].stage)
        /\ Cardinality({k \in DOMAIN log : log[k].stage = "trace_solve"}) = 1

(* C3: the trace solution carries the reduced unknown from one apply to the
   next and the trace solve respects the initial-guess flag.  update, view
   and applyTranspose leave the trace solution as it is; a trace solve with
   the flag set opens the buffer read-write and starts from exactly the
   trace solution the instance held; with the flag clear it opens the buffer
   write-only and its result is the same for every previous content; in both
   cases the result overwrites the trace solution. *)
C3_TraceSolveRespectsInitialGuess ==
    [][/\ last'.op \in {"update", "view", "applyTranspose"} =>
              TraceSolution(self') = TraceSolution(self)
       /\ (last'.op = "apply" /\ last'.solve.ran) =>
              /\ TraceSolution(self') = last'.solve.result
              /\ self.trace_ksp.guess =>
                     /\ last'.solve.access = "rw"
                     /\ last'.solve.start = TraceSolution(self)
              /\ ~self.trace_ksp.guess =>
                     /\ last'.solve.access = "wo"
                     /\ \A v \in Val :
                            KspSolve(self.trace_ksp, last'.solve.mat,
                                     last'.solve.rhs, v) = last'.solve.result
      ]_vars

\* A trace solve with the flag set has started from a nonzero trace solution
\* left by an earlier apply.
C3_Witness ==
    /\ last.op = "apply"
    /\ last.solve.ran
    /\ last.solve.access = "rw"
    /\ last.solve.start # 0

\* C4: whenever the trace solve of an apply does not converge, apply raises
\* an error, runs no reconstruction stage and does not write y.
C4_NonConvergenceIsSurfaced ==
    (last.op = "apply" /\ last.solve.ran /\ ~last.solve.converged) =>
        /\ last.err # ""
        /\ ~last.wroteY
        /\ \A k \in DOMAIN last.log : StageClass(last.log[k].stage) # 5

\* C5: on an instance on which no initialize call has returned without
\* raising, every update and every apply raises, and apply does not write y.
C5_BeforeInitializeIsError ==
    (~initOk /\ last.op \in {"update", "apply"}) =>
        /\ last.err # ""
        /\ ~last.wroteY


\* C6: a failed initialize leaves no partial initialization behind: whenever
\* initialize raises, every attribute of the instance is what it was before
\* the call.
C6_FailedInitializeLeavesNothing ==
    [][(last'.op = "initialize" /\ last'.err # "") => self' = self]_vars

\* C7: initialize raises on every malformed context, on the first call and
\* on every later one: after an initialize that returned, the context of
\* that call is an ImplicitMatrixContext, it has three spaces (static
\* condensation) or two (hybridization), the third space of the
\* static-condensation layout is an HDiv Trace space, and the pair of the
\* hybridization layout is one H(div) space and one L2 space; and after a
\* HybridizationPC.initialize that returned, vidx and pidx are distinct,
\* cover {0, 1} and name the H(div) and the L2 space of the context of that
\* same call.  (self.cxt is the context of the last initialize call: it is
\* assigned before any check.)
C7_InitializeRejectsMalformed ==
    Succeeded("initialize") =>
        /\ self.cxt.isIMC
        /\ Len(self.cxt.spaces) = NSpaces(kind)
        /\ kind = HybridStaticCondensationPC =>
               Space(self.cxt.spaces, 2).family = "HDiv Trace"
        /\ kind = HybridizationPC =>
               /\ \E v, p \in 0..1 :
                      /\ v # p
                      /\ Space(self.cxt.spaces, v).sobolev = "HDiv"
                      /\ Space(self.cxt.spaces, p).sobolev = "L2"
               /\ self.vidx # self.pidx
               /\ {self.vidx, self.pidx} = {0, 1}
               /\ Space(self.cxt.spaces, self.vidx).sobolev = "HDiv"
               /\ Space(self.cxt.spaces, self.pidx).sobolev = "L2"

(* C8: update re-evaluates only the values of S.  After an update that
   returns, S is the same matrix object with the same boundary conditions,
   the trace solver is the same object and is bound to that matrix, and
   every other attribute of the instance (the trace solution, the broken and
   unbroken residual and solution buffers, the role indices, the projection
   method, the callables) is unchanged. *)
C8_UpdateOnlyRefreshesS ==
    [][(last'.op = "update" /\ last'.err = "") =>
          /\ self'.S.id = self.S.id
          /\ self'.S.bcs = self.S.bcs
          /\ self'.trace_ksp = self.trace_ksp
          /\ self'.trace_ksp.operator = self'.S.id
          /\ [self' EXCEPT !.S = self.S] = self]_vars

\* An update has returned on an instance that has applied, and has changed
\* the values of S.
C8_Witness ==
    /\ Succeeded("update")
    /\ last.prevMat # self.S.mat
    /\ TraceSolution(self) # 0

(* C9: every update evaluates the re-assembled S into the matrix handle the
   trace solver is bound to: after an update that returns, no assembly of S
   is left unevaluated and the handle holds the Schur complement of the
   current coefficient; and no trace solve of an apply runs on a handle with
   an unevaluated assembly. *)
C9_UpdateRefreshesOperator ==
    /\ Succeeded("update") =>
           /\ ~self.S.pending
           /\ self.S.mat = SchurComp(kind, self._assemble_S, coeff)
    /\ (last.op = "apply" /\ last.solve.ran) => ~last.solve.stale

\* An update has returned after the coefficient changed: the handle holds
\* new values.
C9_Witness ==
    /\ Succeeded("update")
    /\ last.prevMat # self.S.mat
    /\ self.S.mat = SchurComp(kind, self._assemble_S, coeff)

(* C10: update is idempotent with respect to apply.  An update made while
   the coefficient is the one S was last assembled for leaves the output of
   apply unchanged: for every x, apply(x) after the update writes the same y
   as apply(x) before it. *)
C10_UpdateIdempotent ==
    [][(/\ last'.op = "update" /\ last'.err = ""
        /\ self.S.mat = SchurComp(kind, self._assemble_S, coeff)) =>
          \A x \in Vecs(kind) :
              PC_apply(kind, self', x, y', coeff').y
                  = PC_apply(kind, self, x, y, coeff).y]_vars

\* An update has returned that did not change the values of S, on an
\* instance whose trace solver reuses a nonzero trace solution.
C10_Witness ==
    /\ Succeeded("update")
    /\ last.prevMat = self.S.mat
    /\ self.trace_ksp.guess
    /\ TraceSolution(self) # 0

(* C11: strong boundary conditions in the operator context are advisory
   only.  Whenever initialize is called with a context that carries a
   non-empty list of boundary conditions, on whichever sub-space each is
   defined, and the same call with the list emptied would return, the call
   logs a warning, returns without raising, and the reduced operator
   carries boundary conditions on the trace space only, which are the
   supplied ones. *)
C11_BoundaryConditionsAdvisory ==
    [][\A pc \in PCs(kind) :
          (/\ last'.op = "initialize"
           /\ pc.cxt.row_bcs # <<>>
           /\ PC_initialize(kind, self, pc, coeff, nInit + 1).self = self'
           /\ PC_initialize(kind, self, [pc EXCEPT !.cxt.row_bcs = <<>>],
                            coeff, nInit + 1).err = "") =>
              /\ last'.warned
              /\ last'.err = ""
              /\ Len(self'.S.bcs) = Len(pc.cxt.row_bcs)
              /\ \A k \in DOMAIN self'.S.bcs :
                     /\ self'.S.bcs[k].V = "trace"
                     /\ self'.S.bcs[k].supplied]_vars

\* Whether the basis attached to S in instance s is the transfer of the
\* nullspace declared by the operator of pc, for the coefficient c of the
\* initialize call.
NullspaceTransferred(pc, s, c) ==
    LET basis == s.S.nullspace
        nsp   == pc.nullspace
        fw    == Forward(s._assemble_S, c)
    IN  /\ nsp.handle = 0 => /\ ~basis.attached
                             /\ basis.vecs = <<>>
        /\ nsp.handle # 0 =>
               /\ basis.attached
               /\ Len(basis.vecs) = Len(nsp.vecs)
               /\ \A i \in DOMAIN nsp.vecs :
                      LET raw == forward_action(fw, project(nsp.vecs[i]))
                      IN  /\ basis.vecs[i] = Normalize(raw)
                          /\ raw # 0 => Norm(basis.vecs[i]) = 1
               /\ basis.assembled
               /\ ~basis.bound
               /\ s.trace_ksp.operator = s.S.id

(* C12: nullspace transfer in HybridizationPC.initialize.  After every
   initialize call that returns: if the operator declares no nullspace, no
   basis is attached to S; otherwise the attached basis has one vector per
   declared vector, in the same order, each the normalized forward action
   on the broken projection of its own declared vector (not of the one the
   shared temporary held last), and it was attached when S had been
   assembled and evaluated and before the trace solver was bound to S. *)
C12_NullspaceTransfer ==
    [][\A pc \in HybridPCs :
          (/\ kind = HybridizationPC
           /\ last'.op = "initialize" /\ last'.err = ""
           /\ PC_initialize(kind, self, pc, coeff, nInit + 1).self = self') =>
              NullspaceTransferred(pc, self', coeff)]_vars

\* An initialize has returned that attached a basis of two transferred
\* vectors which differ.
C12_Witness ==
    /\ Succeeded("initialize")
    /\ kind = HybridizationPC
    /\ self.S.nullspace.attached
    /\ Len(self.S.nullspace.vecs) = 2
    /\ self.S.nullspace.vecs[1] # self.S.nullspace.vecs[2]
    /\ self.trace_ksp.operator = self.S.id

\* The forward-elimination operator of the Schur reduction, as in
\* schur_rhs = K * Atilde.inv * AssembledVector(broken_residual), negated:
\* -K * Atilde.inv, a row over the broken space.
ForwardElimination(cl, c) ==
    [j \in 0..1 |->
        Neg(Add(Mul(KRow(cl.cxt, cl.vidx)[0], Inv2(Atilde(cl.cxt, c))[0][j]),
                Mul(KRow(cl.cxt, cl.vidx)[1], Inv2(Atilde(cl.cxt, c))[1][j])))]

\* Whether n is in the kernel of the operator of closure cl.
InKernel(cl, c, n) ==
    \A i \in 0..1 :
        Add(Mul(Atilde(cl.cxt, c)[i][0], n[0]), Mul(Atilde(cl.cxt, c)[i][1], n[1])) = 0

\* C13: the transferred nullspace lies in the kernel of the reduced
\* operator.  After every HybridizationPC.initialize that returns, for every
\* vector n the operator declares, the attached vector v is the normalized
\* action of -K * Atilde.inv on the broken projection of n, and S.v = 0 for
\* the S assembled by that call whenever n is in the operator's kernel.
C13_TransferredNullspaceInKernel ==
    [][\A pc \in HybridPCs :
          (/\ kind = HybridizationPC
           /\ last'.op = "initialize" /\ last'.err = ""
           /\ pc.nullspace.handle # 0
           /\ PC_initialize(kind, self, pc, coeff, nInit + 1).self = self') =>
              \A i \in DOMAIN pc.nullspace.vecs :
                  LET n  == pc.nullspace.vecs[i]
                      cl == self'._assemble_S
                      v  == self'.S.nullspace.vecs[i]
                  IN  /\ v = Normalize(forward_action(ForwardElimination(cl, coeff),
                                                      project(n)))
                      /\ InKernel(cl, coeff, n) => Mul(self'.S.mat, v) = 0]_vars

(* C14: assembling the rank-0 tensor of the constant integrand 1 over an
   extruded mesh gives the sum of the contributions of all cells of all
   layers, the domain measure 1.0, and the tensor indexed with the empty
   index tuple assembles to the same scalar. *)
C14_ScalarTensorOnExtrudedMesh ==
    /\ tres.tensor # -1 => tres.tensor = One(tmesh)
    /\ texpr = "done" => tres.block = tres.tensor

\* Both assemblies have returned on the unit interval of 5 cells extruded
\* to 5 layers.
C14_Witness ==
    /\ texpr = "done"
    /\ tmesh = ExtrudedMesh(5, 5)
    /\ tres.tensor = One(tmesh)
    /\ tres.block = One(tmesh)

\* C15: view keeps the viewer's indentation balanced.  After every
\* HybridizationPC.view that returns, for either projection method, the
\* viewer's indentation level is what it was on entry.
C15_ViewIndentationBalanced ==
    [][(/\ kind = HybridizationPC
        /\ last'.op = "view" /\ last'.err = "") => viewer' = viewer]_vars

\* The instance with every buffer as initialize allocates it: zero.
ResetBuffers(s) ==
    [s EXCEPT !.broken_solution = Zero2, !.broken_residual = Zero2,
              !.trace_solution = 0,
              !.unbroken_solution = Zero2, !.unbroken_residual = Zero2,
              !._primal_r = 0, !.schur_rhs = 0, !._projection_rhs = 0,
              !.r_lambda = 0, !.residual = Zero3, !.r_lambda_thunk = 0,
              !.solution = Zero3]

\* The input x of the last apply: what its first stage copied.
InputOf(s) == IF kind = HybridizationPC THEN s.unbroken_residual ELSE s.residual

\* Every buffer a stage of the log reads, other than the input x and the
\* operator S, was written by an earlier stage of the same log.
ReadsCovered(log) ==
    \A k \in DOMAIN log : \A b \in log[k].reads :
        \/ b[1] \in {"x", "S"}
        \/ \E j \in 1..(k - 1) : b \in log[j].writes

\* C16: apply is history-independent when the initial-guess flag is false.
\* After every apply that returns on an initialized instance whose trace
\* solver has the flag false, the y written is the y the same apply writes
\* on that instance with every buffer reset to zero, whatever calls came
\* before, and every buffer read during the apply was written earlier in
\* that same apply.
C16_ApplyHistoryIndependent ==
    (Succeeded("apply") /\ ~self.trace_ksp.guess) =>
        /\ y = PC_apply(kind, ResetBuffers(self), InputOf(self), ZeroY, coeff).y
        /\ ReadsCovered(last.log)

====
